---- MODULE Spec2Model ----
(***************************************************************************)
(* Semantic analysis core of sway-core: struct declarations, struct       *)
(* instantiation type checking, and whole-program type checking.          *)
(*                                                                         *)
(*   Spec         struct_instantiation (struct_instantiation.rs)          *)
(*   SpecLookup   TyStructDecl::get_field_index_and_type (struct.rs)       *)
(*   SpecEq       PartialEqWithEngines / HashWithEngines (struct.rs)       *)
(*   SpecProgram  TyProgram::type_check (program.rs)                       *)
(*   SpecStorage  get_typed_program_with_initialized_storage_slots         *)
(***************************************************************************)
EXTENDS Integers, Sequences, FiniteSets, TLC

VARIABLES
    \* ---- struct_instantiation ----
    pc,                 \* position inside struct_instantiation
    steps,              \* the steps of struct_instantiation executed so far
    decl_engine,        \* the struct declaration stored in the declaration engine
    cur_module,         \* ctx.namespace: path of the module being checked
    namespace,          \* ctx.namespace: names bound in the caller's namespace
    resolution,         \* outcome of lines 44-93 for this call path
    fields,             \* the supplied StructExpressionFields
    struct_fields,      \* working copy of struct_decl.fields
    typed_fields,       \* result of type_check_field_arguments
    locals,             \* the boolean locals of lines 108-112
    handler,            \* the caller's diagnostic sink
    result,             \* what struct_instantiation returned
    \* ---- TyStructDecl lookups and comparisons ----
    declA, declB,       \* two struct declarations under one Engines context
    field_name,         \* argument of get_field_index_and_type
    lookup,             \* its result
    cmp,                \* results of eq / hash on declA, declB
    \* ---- TyProgram::type_check ----
    ppc,                \* position inside TyProgram::type_check or the slot initialization
    program             \* the parsed program and the state of type_check

instVars == <<pc, steps, decl_engine, cur_module, namespace, resolution, fields,
              struct_fields, typed_fields, locals, handler, result>>
declVars == <<declA, declB, field_name, lookup, cmp>>
progVars == <<ppc, program>>
vars == <<instVars, declVars, progVars>>

-----------------------------------------------------------------------------
(* Bounds *)

MaxFields == 2          \* declared fields of the instantiated struct
MaxSupplied == 2        \* supplied fields of one struct expression
MaxLookupFields == 2    \* fields of a declaration looked up by name
MaxEqFields == 2        \* fields of the declarations compared
MaxModules == 3         \* submodules of the program
MaxEntryFns == 2        \* entry functions of the program
MaxStorageSlots == 3    \* storage slots of the contract

-----------------------------------------------------------------------------
(* Generic helpers *)

SeqsUpTo(S, n) == UNION {[1..k -> S] : k \in 0..n}

NoDuplicates(s) == \A i, j \in 1..Len(s) : i # j => s[i] # s[j]

\* iter().find(|x| x.name == name) as a position: the first index of an
\* element of that name, or 0.
FindByName(s, name) ==
    IF \E i \in 1..Len(s) : s[i].name = name
    THEN CHOOSE i \in 1..Len(s) :
            s[i].name = name /\ \A j \in 1..(i - 1) : s[j].name # name
    ELSE 0

-----------------------------------------------------------------------------
(* Type engine, module paths, diagnostics *)

\* The type engine's table: type id -> type info.  Ids 1 and 3 hold the
\* same descriptor behind two different handles.
TypeEngine ==
    [id \in 1..6 |->
        CASE id = 1 -> "u64"
          [] id = 2 -> "bool"
          [] id = 3 -> "u64"
          [] id = 4 -> "ErrorRecovery"
          [] id = 5 -> "Struct"
          [] OTHER  -> "Unknown"]

U64Id == CHOOSE id \in DOMAIN TypeEngine : TypeEngine[id] = "u64"
BoolId == CHOOSE id \in DOMAIN TypeEngine : TypeEngine[id] = "bool"
ErrorRecoveryId == CHOOSE id \in DOMAIN TypeEngine : TypeEngine[id] = "ErrorRecovery"
StructTypeId == CHOOSE id \in DOMAIN TypeEngine : TypeEngine[id] = "Struct"
\* a second handle of the u64 descriptor
U64AliasId == CHOOSE id \in DOMAIN TypeEngine : TypeEngine[id] = "u64" /\ id # U64Id
UnknownId == CHOOSE id \in DOMAIN TypeEngine : TypeEngine[id] = "Unknown"

\* TypeEngine::unify / unify_with_generic: TRUE iff the two types are
\* compatible.  An error-recovery or unknown type is compatible with
\* everything.
UnifyOk(received, expected) ==
    \/ TypeEngine[received] = TypeEngine[expected]
    \/ TypeEngine[received] \in {"ErrorRecovery", "Unknown"}
    \/ TypeEngine[expected] \in {"ErrorRecovery", "Unknown"}

IsPrefixOf(p, q) == Len(p) <= Len(q) /\ SubSeq(q, 1, Len(p)) = p

\* Namespace::module_is_submodule_of(absolute_module_path, true_if_same)
ModuleIsSubmoduleOf(current, absolute_module_path, true_if_same) ==
    /\ IsPrefixOf(absolute_module_path, current)
    /\ (true_if_same \/ Len(current) > Len(absolute_module_path))

\* Namespace::module_is_external(absolute_module_path)
ModuleIsExternal(current, absolute_module_path) ==
    absolute_module_path[1] # current[1]

\* Handler::emit_err
EmitErr(h, err) == Append(h, err)

\* Handler::scope(f): f runs against a fresh handler whose diagnostics are
\* then appended to the outer one; the body's own result is the result.
HandlerScope(h, inner, closure_res) ==
    [handler |-> h \o inner, res |-> closure_res]

CountOf(h, kind) == Len(SelectSeq(h, LAMBDA d : d.kind = kind))

-----------------------------------------------------------------------------
(* Struct declarations (language/ty/declaration/struct.rs) *)

Visibilities == {"Public", "Private"}

\* struct TyStructField
TyStructField(visibility, name, span, type_id, attributes) ==
    [visibility |-> visibility, name |-> name, span |-> span,
     type_argument |-> type_id, attributes |-> attributes]

\* struct TyStructDecl
TyStructDecl(prefixes, suffix, flds, type_parameters, visibility, span, attributes) ==
    [call_path |-> [prefixes |-> prefixes, suffix |-> suffix, is_absolute |-> TRUE],
     fields |-> flds, type_parameters |-> type_parameters,
     visibility |-> visibility, span |-> span, attributes |-> attributes]

\* TyStructField::is_private
IsPrivate(field) == field.visibility = "Private"

\* get_field_index_and_type with a one-based index
GetFieldIndexAndTypeOneBased(struct_decl, name) ==
    LET k == FindByName(struct_decl.fields, name)
    IN  IF k = 0 THEN [kind |-> "None"]
        ELSE [kind |-> "Some", idx |-> k,
              type_id |-> struct_decl.fields[k].type_argument]

\* TyStructDecl::get_field_index_and_type: enumerate() counts from zero
GetFieldIndexAndType(struct_decl, name) ==
    LET k == FindByName(struct_decl.fields, name)
    IN  IF k = 0 THEN [kind |-> "None"]
        ELSE [kind |-> "Some", idx |-> k - 1,
              type_id |-> struct_decl.fields[k].type_argument]

\* PartialEqWithEngines for TypeArgument: the type infos behind the two
\* type ids are compared, not the ids.
TypeArgumentEq(a, b) == TypeEngine[a] = TypeEngine[b]

\* PartialEqWithEngines for TyStructField
FieldEq(self, other) ==
    self.name = other.name /\ TypeArgumentEq(self.type_argument, other.type_argument)

\* PartialEqWithEngines for Vec<TyStructField>
FieldsEq(xs, ys) ==
    Len(xs) = Len(ys) /\ \A i \in 1..Len(xs) : FieldEq(xs[i], ys[i])

\* PartialEqWithEngines for Vec<TypeParameter>
TypeParametersEq(xs, ys) ==
    Len(xs) = Len(ys) /\ \A i \in 1..Len(xs) : xs[i] = ys[i]

\* PartialEqWithEngines for TyStructDecl, comparing the spans too
DeclEqWithSpan(self, other) ==
    /\ self.call_path.suffix = other.call_path.suffix
    /\ FieldsEq(self.fields, other.fields)
    /\ TypeParametersEq(self.type_parameters, other.type_parameters)
    /\ self.visibility = other.visibility
    /\ self.span = other.span

\* PartialEqWithEngines for TyStructDecl
DeclEq(self, other) ==
    /\ self.call_path.suffix = other.call_path.suffix
    /\ FieldsEq(self.fields, other.fields)
    /\ TypeParametersEq(self.type_parameters, other.type_parameters)
    /\ self.visibility = other.visibility

\* HashWithEngines for TyStructField: what is fed to the hasher
FieldHash(self) == <<self.visibility, self.name, TypeEngine[self.type_argument]>>

\* HashWithEngines for TyStructDecl: what is fed to the hasher
DeclHash(self) ==
    <<self.call_path.suffix,
      [i \in 1..Len(self.fields) |-> FieldHash(self.fields[i])],
      self.type_parameters,
      self.visibility>>

-----------------------------------------------------------------------------
(* struct_instantiation: inputs *)

DeclFieldNames == {"a", "b"}
SuppliedFieldNames == DeclFieldNames \cup {"x"}

\* The declared type of a field of the instantiated struct.
DeclaredTypeOf(name) == IF name = "a" THEN U64Id ELSE BoolId

\* The value expressions a struct expression may supply.
Expressions == {"lit_u64", "lit_bool", "bad"}

DeclPrefixes == {<<"pkg", "m">>, <<"dep", "m">>}
CurrentModules == {<<"pkg">>, <<"pkg", "m">>, <<"pkg", "m", "s">>, <<"pkg", "n">>}

FieldNameLists == {ns \in SeqsUpTo(DeclFieldNames, MaxFields) : NoDuplicates(ns)}

FieldLists ==
    UNION {{[i \in 1..Len(ns) |->
                TyStructField(vs[i], ns[i], "field_span", DeclaredTypeOf(ns[i]), "attrs")]
            : vs \in [1..Len(ns) -> Visibilities]}
           : ns \in FieldNameLists}

StructDecls ==
    {TyStructDecl(p, "S", fs, tps, "Public", "decl_span", "attrs")
     : p \in DeclPrefixes, fs \in FieldLists, tps \in {<<>>, <<"T">>}}

\* struct StructExpressionField { name, value }
SuppliedFields == SeqsUpTo([name : SuppliedFieldNames, value : Expressions], MaxSupplied)

\* The ways lines 44-93 can end for a call path.
Resolutions ==
    {"struct", "prefix_type_args", "self_type_args", "not_submodule",
     "unresolved", "not_struct"}

\* ctx.type_annotation(): unknown, the struct's own type, or another type.
Annotations == {UnknownId, StructTypeId, U64Id}

-----------------------------------------------------------------------------
(* struct_instantiation: the computations of its steps *)

\* line 108
StructCanBeAdapted(current, struct_decl) ==
    ~ModuleIsExternal(current, struct_decl.call_path.prefixes)

\* line 110
IsOutOfDeclModuleInstantiation(current, struct_decl) ==
    ~ModuleIsSubmoduleOf(current, struct_decl.call_path.prefixes, TRUE)

\* line 111
StructHasPrivateFields(sfs) == \E i \in 1..Len(sfs) : sfs[i].visibility = "Private"

\* line 112 with && in place of ||
StructCanBeInstantiatedBoth(is_out_of_decl_module_instantiation, struct_has_private_fields) ==
    ~is_out_of_decl_module_instantiation /\ ~struct_has_private_fields

\* line 112 without the call-site test
StructCanBeInstantiatedNoPrivate(is_out_of_decl_module_instantiation, struct_has_private_fields) ==
    ~struct_has_private_fields

\* line 112
StructCanBeInstantiated(is_out_of_decl_module_instantiation, struct_has_private_fields) ==
    ~is_out_of_decl_module_instantiation \/ ~struct_has_private_fields

\* ty::TyExpression::type_check of a supplied value: a literal checks to a
\* typed expression of its own type; a bad expression emits an error and
\* yields Err.
TyExpressionTypeCheck(h, value) ==
    IF value = "bad"
    THEN [ok |-> FALSE, handler |-> EmitErr(h, [kind |-> "ExpressionError"])]
    ELSE [ok |-> TRUE, handler |-> h,
          res |-> [expression |-> value,
                   return_type |-> IF value = "lit_u64" THEN U64Id ELSE BoolId,
                   span |-> "value_span"]]

\* lines 253-264: the placeholder pushed for a field without a supplied value
MissingFieldPlaceholder(struct_field) ==
    [name |-> struct_field.name,
     value |-> [expression |-> "Tuple", return_type |-> ErrorRecoveryId, span |-> "span"]]

\* line 269 without the emit_missing_fields_error flag
EmitMissingFieldsErrorAlways(emit_missing_fields_error, missing_fields) ==
    Len(missing_fields) > 0

\* line 269
EmitMissingFieldsError(emit_missing_fields_error, missing_fields) ==
    emit_missing_fields_error /\ Len(missing_fields) > 0

RECURSIVE TypeCheckFieldLoop(_, _, _)
\* lines 226-267: the loop over struct_fields, from position i on.
\* acc = [handler, typed_fields, missing_fields, struct_fields]
TypeCheckFieldLoop(i, flds, acc) ==
    IF i > Len(acc.struct_fields) THEN acc
    ELSE LET struct_field == acc.struct_fields[i]
             k == FindByName(flds, struct_field.name)
         IN  IF k = 0
             THEN TypeCheckFieldLoop(i + 1, flds,
                    [acc EXCEPT !.missing_fields = Append(@, struct_field.name),
                                !.typed_fields = Append(@, MissingFieldPlaceholder(struct_field))])
             ELSE LET checked == TyExpressionTypeCheck(acc.handler, flds[k].value)
                  IN  IF checked.ok
                      THEN TypeCheckFieldLoop(i + 1, flds,
                             [acc EXCEPT !.handler = checked.handler,
                                         !.typed_fields = Append(@, [name |-> flds[k].name,
                                                                     value |-> checked.res]),
                                         !.struct_fields[i].span = checked.res.span])
                      ELSE \* Err(_) => continue
                           TypeCheckFieldLoop(i + 1, flds,
                             [acc EXCEPT !.handler = checked.handler])

\* fn type_check_field_arguments with line 274 counting the missing fields
TypeCheckFieldArgumentsCountMissing(h, flds, sfs, emit_missing_fields_error) ==
    LET done == TypeCheckFieldLoop(1, flds,
                    [handler |-> h, typed_fields |-> <<>>, missing_fields |-> <<>>,
                     struct_fields |-> sfs])
    IN  [typed_fields |-> done.typed_fields,
         struct_fields |-> done.struct_fields,
         handler |->
            IF EmitMissingFieldsError(emit_missing_fields_error, done.missing_fields)
            THEN EmitErr(done.handler,
                    [kind |-> "StructInstantiationMissingFields",
                     field_names |-> done.missing_fields,
                     total_number_of_fields |-> Len(done.missing_fields)])
            ELSE done.handler]

\* fn type_check_field_arguments (lines 210-280); always returns Ok
TypeCheckFieldArguments(h, flds, sfs, emit_missing_fields_error) ==
    LET done == TypeCheckFieldLoop(1, flds,
                    [handler |-> h, typed_fields |-> <<>>, missing_fields |-> <<>>,
                     struct_fields |-> sfs])
    IN  [typed_fields |-> done.typed_fields,
         struct_fields |-> done.struct_fields,
         handler |->
            IF EmitMissingFieldsError(emit_missing_fields_error, done.missing_fields)
            THEN EmitErr(done.handler,
                    [kind |-> "StructInstantiationMissingFields",
                     field_names |-> done.missing_fields,
                     total_number_of_fields |-> Len(done.struct_fields)])
            ELSE done.handler]

\* lines 127-134
StructCannotBeInstantiatedError(sfs, struct_can_be_adapted) ==
    [kind |-> "StructCannotBeInstantiated",
     private_fields |-> [i \in 1..Len(SelectSeq(sfs, IsPrivate)) |->
                            SelectSeq(sfs, IsPrivate)[i].name],
     all_fields_are_private |-> \A i \in 1..Len(sfs) : IsPrivate(sfs[i]),
     struct_can_be_adapted |-> struct_can_be_adapted]

\* lines 294-306: the diagnostics unify_with_generic emits inside the scope,
\* one per struct field whose typed value does not unify with its type.
FieldUnificationErrors(tfs, sfs) ==
    LET Mismatch(struct_field) ==
            LET k == FindByName(tfs, struct_field.name)
            IN  k # 0 /\ ~UnifyOk(tfs[k].value.return_type, struct_field.type_argument)
        bad == SelectSeq(sfs, Mismatch)
    IN  [i \in 1..Len(bad) |-> [kind |-> "FieldTypeMismatch", field_name |-> bad[i].name]]

\* fn unify_field_arguments_and_struct_fields (lines 284-309)
UnifyFieldArgumentsAndStructFields(h, tfs, sfs) ==
    HandlerScope(h, FieldUnificationErrors(tfs, sfs), "Ok")

\* lines 152-160 leaving the loop after the first error
ExtraFieldErrorsFirstOnly(flds, sfs) ==
    LET Extra(field) == ~\E i \in 1..Len(sfs) : sfs[i].name = field.name
        extra == SelectSeq(flds, Extra)
    IN  IF Len(extra) = 0 THEN <<>>
        ELSE <<[kind |-> "StructDoesNotHaveField", field_name |-> extra[1].name]>>

\* lines 152-160: one error per supplied field no struct field is named like
ExtraFieldErrors(flds, sfs) ==
    LET Extra(field) == ~\E i \in 1..Len(sfs) : sfs[i].name = field.name
        extra == SelectSeq(flds, Extra)
    IN  [i \in 1..Len(extra) |->
            [kind |-> "StructDoesNotHaveField", field_name |-> extra[i].name]]

\* lines 164-180 without the test of line 164
PrivateFieldErrorsEverywhere(is_out_of_decl_module_instantiation, flds, sfs) ==
    LET Priv(field) ==
            LET k == FindByName(sfs, field.name)
            IN  k # 0 /\ sfs[k].visibility = "Private"
        priv == SelectSeq(flds, Priv)
    IN  [i \in 1..Len(priv) |->
            [kind |-> "StructFieldIsPrivate", field_name |-> priv[i].name,
             struct_name |-> "S", struct_can_be_adapted |-> FALSE]]

\* lines 164-180 passing on struct_can_be_adapted as line 132 does
PrivateFieldErrorsAdaptable(is_out_of_decl_module_instantiation, flds, sfs) ==
    LET Priv(field) ==
            LET k == FindByName(sfs, field.name)
            IN  k # 0 /\ sfs[k].visibility = "Private"
        priv == SelectSeq(flds, Priv)
    IN  IF is_out_of_decl_module_instantiation
        THEN [i \in 1..Len(priv) |->
                [kind |-> "StructFieldIsPrivate", field_name |-> priv[i].name,
                 struct_name |-> "S", struct_can_be_adapted |-> TRUE]]
        ELSE <<>>

\* lines 164-180: one error per supplied field naming a private struct field
PrivateFieldErrors(is_out_of_decl_module_instantiation, flds, sfs) ==
    LET Priv(field) ==
            LET k == FindByName(sfs, field.name)
            IN  k # 0 /\ sfs[k].visibility = "Private"
        priv == SelectSeq(flds, Priv)
    IN  IF is_out_of_decl_module_instantiation
        THEN [i \in 1..Len(priv) |->
                [kind |-> "StructFieldIsPrivate", field_name |-> priv[i].name,
                 struct_name |-> "S", struct_can_be_adapted |-> FALSE]]
        ELSE <<>>

\* lines 195-204
StructExpression(struct_decl, tfs, type_id) ==
    [struct_ref |-> struct_decl.call_path, fields |-> tfs, return_type |-> type_id,
     span |-> "span"]

\* lines 182-185 inserting into ctx.namespace itself
NamespaceAfterBoundCheckShared(caller_namespace, struct_namespace) == struct_namespace

\* lines 182-185: the type parameters go into struct_namespace, a clone;
\* ctx.namespace keeps the value it had.
NamespaceAfterBoundCheck(caller_namespace, struct_namespace) == caller_namespace

-----------------------------------------------------------------------------
(* struct_instantiation: the state machine *)

Idle == [kind |-> "idle"]

DeclIdle ==
    /\ declA = Idle /\ declB = Idle /\ field_name = "" /\ lookup = Idle /\ cmp = Idle

ProgIdle == ppc = "idle" /\ program = Idle

InstIdle ==
    /\ pc = "idle" /\ steps = <<>> /\ decl_engine = Idle /\ cur_module = <<>>
    /\ namespace = {} /\ resolution = "none" /\ fields = <<>> /\ struct_fields = <<>>
    /\ typed_fields = <<>> /\ locals = Idle /\ handler = <<>> /\ result = Idle

Init ==
    /\ pc = "start"
    /\ steps = <<>>
    /\ decl_engine \in StructDecls
    /\ cur_module \in CurrentModules
    /\ namespace = {"S"}
    /\ resolution = "none"
    /\ fields \in SuppliedFields
    /\ struct_fields = <<>>
    /\ typed_fields = <<>>
    /\ locals = Idle
    /\ handler = <<>>
    /\ result = [kind |-> "none"]
    /\ DeclIdle
    /\ ProgIdle

Fail(h, err, at) ==
    /\ handler' = EmitErr(h, err)
    /\ result' = [kind |-> "Err", at |-> at]
    /\ pc' = "done"

\* lines 33-112: resolve the call path to a struct declaration, clone its
\* fields and compute the instantiability flags.
Resolve ==
    /\ pc = "start"
    /\ steps' = Append(steps, "resolve")
    /\ \E r \in Resolutions :
        /\ resolution' = r
        /\ CASE r = "prefix_type_args" ->
                    /\ Fail(handler, [kind |-> "DoesNotTakeTypeArgumentsAsPrefix"], r)
                    /\ UNCHANGED <<struct_fields, locals>>
             [] r = "self_type_args" ->
                    /\ Fail(handler, [kind |-> "TypeArgumentsNotAllowed"], r)
                    /\ UNCHANGED <<struct_fields, locals>>
             [] r = "not_submodule" ->
                    /\ Fail(handler, [kind |-> "ModuleNotFound"], r)
                    /\ UNCHANGED <<struct_fields, locals>>
             [] r = "unresolved" ->
                    \* resolve_type failed: ErrorRecovery is not a struct
                    /\ Fail(handler, [kind |-> "SymbolNotFound"], r)
                    /\ UNCHANGED <<struct_fields, locals>>
             [] r = "not_struct" ->
                    /\ Fail(handler, [kind |-> "NotAStruct"], r)
                    /\ UNCHANGED <<struct_fields, locals>>
             [] OTHER ->
                    LET struct_decl == decl_engine
                        is_out == IsOutOfDeclModuleInstantiation(cur_module, struct_decl)
                        has_private == StructHasPrivateFields(struct_decl.fields)
                    IN  /\ struct_fields' = struct_decl.fields
                        /\ locals' =
                              [kind |-> "locals",
                               struct_can_be_adapted |->
                                    StructCanBeAdapted(cur_module, struct_decl),
                               is_out_of_decl_module_instantiation |-> is_out,
                               struct_has_private_fields |-> has_private,
                               struct_can_be_instantiated |->
                                    StructCanBeInstantiated(is_out, has_private)]
                        /\ pc' = "type_check_field_arguments"
                        /\ UNCHANGED <<handler, result>>
    /\ UNCHANGED <<decl_engine, cur_module, namespace, fields, typed_fields>>
    /\ UNCHANGED <<declVars, progVars>>

\* lines 114-124 working on the fields of the stored declaration itself
TypeCheckFieldArgumentsStepInPlace ==
    /\ pc = "type_check_field_arguments"
    /\ steps' = Append(steps, "type_check_field_arguments")
    /\ LET r == TypeCheckFieldArguments(handler, fields, struct_fields,
                                        locals.struct_can_be_instantiated)
       IN  /\ typed_fields' = r.typed_fields
           /\ struct_fields' = r.struct_fields
           /\ decl_engine' = [decl_engine EXCEPT !.fields = r.struct_fields]
           /\ handler' = r.handler
    /\ pc' = "report_not_instantiable"
    /\ UNCHANGED <<cur_module, namespace, resolution, fields, locals, result>>
    /\ UNCHANGED <<declVars, progVars>>

\* lines 114-124
TypeCheckFieldArgumentsStep ==
    /\ pc = "type_check_field_arguments"
    /\ steps' = Append(steps, "type_check_field_arguments")
    /\ LET r == TypeCheckFieldArguments(handler, fields, struct_fields,
                                        locals.struct_can_be_instantiated)
       IN  /\ typed_fields' = r.typed_fields
           /\ struct_fields' = r.struct_fields
           /\ handler' = r.handler
    /\ pc' = "report_not_instantiable"
    /\ UNCHANGED <<decl_engine, cur_module, namespace, resolution, fields, locals, result>>
    /\ UNCHANGED <<declVars, progVars>>

\* lines 126-135 returning the emitted error
ReportNotInstantiableAndReturn ==
    /\ pc = "report_not_instantiable"
    /\ steps' = Append(steps, "report_not_instantiable")
    /\ IF ~locals.struct_can_be_instantiated
       THEN Fail(handler,
                 StructCannotBeInstantiatedError(struct_fields, locals.struct_can_be_adapted),
                 "report_not_instantiable")
       ELSE pc' = "unify_fields" /\ UNCHANGED <<handler, result>>
    /\ UNCHANGED <<decl_engine, cur_module, namespace, resolution, fields, struct_fields,
                   typed_fields, locals>>
    /\ UNCHANGED <<declVars, progVars>>

\* lines 126-135
ReportNotInstantiable ==
    /\ pc = "report_not_instantiable"
    /\ steps' = Append(steps, "report_not_instantiable")
    /\ handler' =
          IF ~locals.struct_can_be_instantiated
          THEN EmitErr(handler,
                  StructCannotBeInstantiatedError(struct_fields, locals.struct_can_be_adapted))
          ELSE handler
    /\ pc' = "unify_fields"
    /\ UNCHANGED <<decl_engine, cur_module, namespace, resolution, fields, struct_fields,
                   typed_fields, locals, result>>
    /\ UNCHANGED <<declVars, progVars>>

\* line 137
UnifyFields ==
    /\ pc = "unify_fields"
    /\ steps' = Append(steps, "unify_fields")
    /\ LET r == UnifyFieldArgumentsAndStructFields(handler, typed_fields, struct_fields)
       IN  /\ handler' = r.handler
           /\ IF r.res = "Ok"
              THEN pc' = "unify_annotation" /\ UNCHANGED result
              ELSE pc' = "done" /\ result' = [kind |-> "Err", at |-> "unify_fields"]
    /\ UNCHANGED <<decl_engine, cur_module, namespace, resolution, fields, struct_fields,
                   typed_fields, locals>>
    /\ UNCHANGED <<declVars, progVars>>

\* lines 139-149: unify the struct type with the type annotation
UnifyAnnotation ==
    /\ pc = "unify_annotation"
    /\ steps' = Append(steps, "unify_annotation")
    /\ \E type_annotation \in Annotations :
          handler' = IF UnifyOk(StructTypeId, type_annotation)
                     THEN handler
                     ELSE EmitErr(handler, [kind |-> "StructTypeMismatch"])
    /\ pc' = "extra_fields"
    /\ UNCHANGED <<decl_engine, cur_module, namespace, resolution, fields, struct_fields,
                   typed_fields, locals, result>>
    /\ UNCHANGED <<declVars, progVars>>

\* lines 151-160
CheckExtraFields ==
    /\ pc = "extra_fields"
    /\ steps' = Append(steps, "extra_fields")
    /\ handler' = handler \o ExtraFieldErrors(fields, struct_fields)
    /\ pc' = "private_fields"
    /\ UNCHANGED <<decl_engine, cur_module, namespace, resolution, fields, struct_fields,
                   typed_fields, locals, result>>
    /\ UNCHANGED <<declVars, progVars>>

\* lines 162-180
CheckPrivateFields ==
    /\ pc = "private_fields"
    /\ steps' = Append(steps, "private_fields")
    /\ handler' = handler \o
          PrivateFieldErrors(locals.is_out_of_decl_module_instantiation, fields, struct_fields)
    /\ pc' = "type_parameter_bounds"
    /\ UNCHANGED <<decl_engine, cur_module, namespace, resolution, fields, struct_fields,
                   typed_fields, locals, result>>
    /\ UNCHANGED <<declVars, progVars>>

\* lines 182-193: insert the type parameters into a cloned namespace and
\* check the bounds of the struct type there; either may fail.
CheckTypeParameterBounds ==
    /\ pc = "type_parameter_bounds"
    /\ steps' = Append(steps, "type_parameter_bounds")
    /\ LET type_parameters == decl_engine.type_parameters
           struct_namespace ==
                namespace \cup {type_parameters[i] : i \in 1..Len(type_parameters)}
       IN  /\ namespace' = NamespaceAfterBoundCheck(namespace, struct_namespace)
           /\ \E outcome \in {"ok", "insert_failed", "bounds_failed"} :
                CASE outcome = "insert_failed" ->
                        /\ Len(type_parameters) > 0
                        /\ Fail(handler, [kind |-> "TypeParameterError"],
                                "insert_into_namespace_self")
                  [] outcome = "bounds_failed" ->
                        Fail(handler, [kind |-> "TraitConstraintNotSatisfied"],
                             "check_type_parameter_bounds")
                  [] OTHER ->
                        /\ pc' = "return"
                        /\ UNCHANGED <<handler, result>>
    /\ UNCHANGED <<decl_engine, cur_module, resolution, fields, struct_fields,
                   typed_fields, locals>>
    /\ UNCHANGED <<declVars, progVars>>

\* lines 195-206
Return ==
    /\ pc = "return"
    /\ steps' = Append(steps, "return")
    /\ result' = [kind |-> "Ok",
                  exp |-> StructExpression(decl_engine, typed_fields, StructTypeId)]
    /\ pc' = "done"
    /\ UNCHANGED <<decl_engine, cur_module, namespace, resolution, fields, struct_fields,
                   typed_fields, locals, handler>>
    /\ UNCHANGED <<declVars, progVars>>

Next ==
    \/ Resolve
    \/ TypeCheckFieldArgumentsStep
    \/ ReportNotInstantiable
    \/ UnifyFields
    \/ UnifyAnnotation
    \/ CheckExtraFields
    \/ CheckPrivateFields
    \/ CheckTypeParameterBounds
    \/ Return

Spec == Init /\ [][Next]_vars

-----------------------------------------------------------------------------
(* TyStructDecl::get_field_index_and_type on arbitrary declarations *)

LookupNames == {"a", "b"}

LookupFields ==
    [visibility : {"Public"}, name : LookupNames, span : {"field_span"},
     type_argument : {U64Id, BoolId, U64AliasId}, attributes : {"attrs"}]

\* Field names need not be unique here: nothing validates them.
LookupDecls ==
    {TyStructDecl(<<"pkg">>, "S", fs, <<>>, "Public", "decl_span", "attrs")
     : fs \in SeqsUpTo(LookupFields, MaxLookupFields)}

InitLookup ==
    /\ declA \in LookupDecls
    /\ declB = Idle
    /\ field_name = ""
    /\ lookup = Idle
    /\ cmp = Idle
    /\ InstIdle
    /\ ProgIdle

Lookup ==
    /\ lookup = Idle
    /\ \E name \in LookupNames \cup {"x"} :
        /\ field_name' = name
        /\ lookup' = GetFieldIndexAndType(declA, name)
    /\ UNCHANGED <<declA, declB, cmp>>
    /\ UNCHANGED <<instVars, progVars>>

NextLookup == Lookup

SpecLookup == InitLookup /\ [][NextLookup]_vars

-----------------------------------------------------------------------------
(* Equality and hashing of struct declarations under one Engines context *)

EqFields(tag) ==
    {TyStructField(v, nt[1], tag, nt[2], tag)
     : v \in Visibilities, nt \in {<<"a", U64Id>>, <<"a", U64AliasId>>, <<"b", BoolId>>}}

\* tag stands for the spans and the attributes of the declaration and of
\* all its fields.
EqDecls(headers, tag) ==
    {TyStructDecl(<<"pkg">>, h[1], fs, h[2], h[3], tag, tag)
     : h \in headers, fs \in SeqsUpTo(EqFields(tag), MaxEqFields)}

\* <<name, type parameters, visibility>> of a declaration
EqHeader == <<"S", <<"T">>, "Public">>
EqHeaders ==
    {EqHeader, <<"R", <<"T">>, "Public">>, <<"S", <<>>, "Public">>,
     <<"S", <<"T">>, "Private">>}

InitEq ==
    /\ declA \in EqDecls({EqHeader}, "site1")
    /\ declB \in EqDecls(EqHeaders, "site1") \cup EqDecls(EqHeaders, "site2")
    /\ field_name = ""
    /\ lookup = Idle
    /\ cmp = Idle
    /\ InstIdle
    /\ ProgIdle

CompareEq ==
    /\ cmp = Idle
    /\ cmp' = [kind |-> "eq",
               ab |-> DeclEq(declA, declB), ba |-> DeclEq(declB, declA),
               aa |-> DeclEq(declA, declA), bb |-> DeclEq(declB, declB)]
    /\ UNCHANGED <<declA, declB, field_name, lookup>>
    /\ UNCHANGED <<instVars, progVars>>

CompareHash ==
    /\ cmp = Idle
    /\ cmp' = [kind |-> "hash",
               ab |-> DeclEq(declA, declB),
               same_hash |-> DeclHash(declA) = DeclHash(declB)]
    /\ UNCHANGED <<declA, declB, field_name, lookup>>
    /\ UNCHANGED <<instVars, progVars>>

NextEq == CompareEq \/ CompareHash

SpecEq == InitEq /\ [][NextEq]_vars

-----------------------------------------------------------------------------
(* TyProgram::type_check (semantic_analysis/program.rs) *)

TreeTypes == {"Script", "Predicate", "Contract", "Library"}

Modules == 1..MaxModules

\* A dependency graph: <<a, b>> says that module a depends on module b.
DepGraphs == SUBSET {e \in Modules \X Modules : e[1] # e[2]}

DependsOn(g, a) == {b \in Modules : <<a, b>> \in g}

RECURSIVE Closure(_, _)
Closure(g, S) ==
    LET next == S \cup UNION {DependsOn(g, x) : x \in S}
    IN  IF next = S THEN S ELSE Closure(g, next)

HasCycle(g) == \E m \in Modules : m \in Closure(g, DependsOn(g, m))

Position(order, m) == CHOOSE i \in 1..Len(order) : order[i] = m

\* ModuleDepGraph::compute_order: the orders it may return for an acyclic
\* graph: every submodule once, each after the modules it depends on.
ModuleEvaluationOrders(g) ==
    {order \in [1..MaxModules -> Modules] :
        /\ NoDuplicates(order)
        /\ \A e \in g : Position(order, e[2]) < Position(order, e[1])}

\* The function declarations of the root module, all of them entry functions.
FnName(i) == <<"fn", i>>
RootNodes(n) == [i \in 1..n |-> [node |-> "FunctionDeclaration", name |-> FnName(i)]]

\* A declaration of the root module that is no function.
StructNode == [node |-> "StructDeclaration", name |-> <<"struct", 1>>]

InsertAt(s, p, x) == SubSeq(s, 1, p) \o <<x>> \o SubSeq(s, p + 1, Len(s))

\* The node lists of a checked root module: up to MaxEntryFns functions,
\* with or without a struct declaration somewhere among them.
RootNodeLists ==
    {RootNodes(n) : n \in 0..MaxEntryFns}
        \cup UNION {{InsertAt(RootNodes(n), p, StructNode) : p \in 0..n}
                        : n \in 0..MaxEntryFns}

\* TyProgram::entry_fns of the checked program
EntryFns(m) ==
    SelectSeq(m.all_nodes, LAMBDA nd : nd.node = "FunctionDeclaration" /\ nd.name # "__entry")

\* lines 141-212 without the declaration of method_name
EntryContentsWithoutSelector(entry_fns) ==
    [i \in 1..Len(entry_fns) |->
        [node |-> "If", condition |-> <<"eq", "method_name", entry_fns[i].name>>,
         then |-> <<"__log", "method_name">>]]

\* lines 141-212: the body of the synthesized __entry function
EntryContents(entry_fns) ==
    <<[node |-> "VariableDeclaration", name |-> "method_name",
       body |-> "decode_first_param"]>>
    \o [i \in 1..Len(entry_fns) |->
            [node |-> "If", condition |-> <<"eq", "method_name", entry_fns[i].name>>,
             then |-> <<"__log", "method_name">>]]

\* lines 214-233
EntryFnDecl(contents) ==
    [node |-> "FunctionDeclaration", name |-> "__entry", body |-> contents]

InitProgram ==
    /\ ppc = "analyze"
    /\ \E kind \in TreeTypes, graph \in DepGraphs, nodes \in RootNodeLists :
          program = [kind |-> kind,
                     graph |-> graph,
                     root_nodes |-> nodes,
                     module_eval_order |-> <<>>,
                     checked |-> <<>>,
                     root_checked |-> FALSE,
                     all_nodes |-> <<>>,
                     dispatcher |-> "none",
                     handler |-> <<>>,
                     result |-> "none"]
    /\ InstIdle
    /\ DeclIdle

ProgramFail(err) ==
    /\ program' = [program EXCEPT !.handler = Append(@, err), !.result = "Err"]
    /\ ppc' = "done"

\* line 49: ty::TyModule::analyze(handler, root)?
Analyze ==
    /\ ppc = "analyze"
    /\ \/ ProgramFail("analyze_error")
       \/ ppc' = "compute_order" /\ UNCHANGED program
    /\ UNCHANGED <<instVars, declVars>>

\* line 50 going on with an empty order when compute_order fails
ComputeOrderOrDefault ==
    /\ ppc = "compute_order"
    /\ IF HasCycle(program.graph)
       THEN /\ program' = [program EXCEPT !.handler = Append(@, "cycle"),
                                          !.module_eval_order = <<>>]
            /\ ppc' = "type_check_modules"
       ELSE /\ \E order \in ModuleEvaluationOrders(program.graph) :
                    program' = [program EXCEPT !.module_eval_order = order]
            /\ ppc' = "type_check_modules"
    /\ UNCHANGED <<instVars, declVars>>

\* line 50: modules_dep_graph.compute_order(handler)?
ComputeOrder ==
    /\ ppc = "compute_order"
    /\ IF HasCycle(program.graph)
       THEN ProgramFail("cycle")
       ELSE /\ \E order \in ModuleEvaluationOrders(program.graph) :
                    program' = [program EXCEPT !.module_eval_order = order]
            /\ ppc' = "type_check_modules"
    /\ UNCHANGED <<instVars, declVars>>

\* line 53, ty::TyModule::type_check: the next submodule of
\* module_eval_order is type-checked; it may fail.
TypeCheckSubmodule ==
    /\ ppc = "type_check_modules"
    /\ Len(program.checked) < Len(program.module_eval_order)
    /\ LET m == program.module_eval_order[Len(program.checked) + 1]
       IN  \/ /\ program' = [program EXCEPT !.checked = Append(@, m),
                                            !.handler = Append(@, "module_error"),
                                            !.result = "Err"]
              /\ ppc' = "done"
           \/ /\ program' = [program EXCEPT !.checked = Append(@, m)]
              /\ UNCHANGED ppc
    /\ UNCHANGED <<instVars, declVars>>

\* lines 53-64 going on to line 68 when the root module or validate_root fails
TypeCheckRootGoOn ==
    /\ ppc = "type_check_modules"
    /\ Len(program.checked) = Len(program.module_eval_order)
    /\ \/ /\ program' = [program EXCEPT !.root_checked = TRUE,
                                         !.handler = Append(@, "root_error"),
                                         !.all_nodes = program.root_nodes]
          /\ ppc' = "dispatcher"
       \/ /\ program' = [program EXCEPT !.root_checked = TRUE,
                                         !.all_nodes = program.root_nodes]
          /\ ppc' = "dispatcher"
    /\ UNCHANGED <<instVars, declVars>>

\* lines 53-64: after the submodules the root module itself is checked and
\* validate_root runs; either may fail.
TypeCheckRoot ==
    /\ ppc = "type_check_modules"
    /\ Len(program.checked) = Len(program.module_eval_order)
    /\ \/ /\ program' = [program EXCEPT !.root_checked = TRUE,
                                         !.handler = Append(@, "root_error"),
                                         !.result = "Err"]
          /\ ppc' = "done"
       \/ /\ program' = [program EXCEPT !.root_checked = TRUE,
                                         !.all_nodes = program.root_nodes]
          /\ ppc' = "dispatcher"
    /\ UNCHANGED <<instVars, declVars>>

\* lines 68-256 without the test of the program kind at line 68
DispatcherForEveryKind ==
    /\ ppc = "dispatcher"
    /\ LET entry_fn_decl == EntryFnDecl(EntryContents(EntryFns(program)))
       IN  \/ /\ program' = [program EXCEPT !.dispatcher = entry_fn_decl,
                                            !.handler = Append(@, "entry_error"),
                                            !.result = "Err"]
              /\ ppc' = "done"
           \/ /\ program' = [program EXCEPT !.dispatcher = entry_fn_decl,
                                            !.all_nodes = Append(@, entry_fn_decl)]
              /\ ppc' = "return"
    /\ UNCHANGED <<instVars, declVars>>

\* lines 68-256: for a contract the __entry function is built, type-checked
\* and pushed to the root's nodes; the type check may fail.
Dispatcher ==
    /\ ppc = "dispatcher"
    /\ IF program.kind = "Contract"
       THEN LET entry_fn_decl == EntryFnDecl(EntryContents(EntryFns(program)))
            IN  \/ /\ program' = [program EXCEPT !.dispatcher = entry_fn_decl,
                                                 !.handler = Append(@, "entry_error"),
                                                 !.result = "Err"]
                   /\ ppc' = "done"
                \/ /\ program' = [program EXCEPT !.dispatcher = entry_fn_decl,
                                                 !.all_nodes = Append(@, entry_fn_decl)]
                   /\ ppc' = "return"
       ELSE ppc' = "return" /\ UNCHANGED program
    /\ UNCHANGED <<instVars, declVars>>

\* line 260: Ok(m)
ReturnProgram ==
    /\ ppc = "return"
    /\ program' = [program EXCEPT !.result = "Ok"]
    /\ ppc' = "done"
    /\ UNCHANGED <<instVars, declVars>>

NextProgram ==
    \/ Analyze
    \/ ComputeOrder
    \/ TypeCheckSubmodule
    \/ TypeCheckRoot
    \/ Dispatcher
    \/ ReturnProgram

SpecProgram == InitProgram /\ [][NextProgram]_vars

-----------------------------------------------------------------------------
(* TyProgram::get_typed_program_with_initialized_storage_slots (program.rs) *)

TyProgramKinds == {"Contract", "Library", "Predicate", "Script"}

FunctionDecl == [decl |-> "FunctionDecl", decl_id |-> 1]
StorageDecl == [decl |-> "StorageDecl", decl_id |-> 2]

IsStorageDecl(decl) == decl.decl = "StorageDecl"

\* The declaration lists validate_root lets through: a storage declaration
\* only in a contract, and at most one.
DeclarationLists(kind) ==
    {ds \in SeqsUpTo({FunctionDecl, StorageDecl}, 2) :
        Len(SelectSeq(ds, IsStorageDecl)) <= (IF kind = "Contract" THEN 1 ELSE 0)}

\* A typed program as type_check and the passes after it leave it.
TyPrograms ==
    UNION {[kind : {kind}, root : {"root"}, declarations : DeclarationLists(kind),
            configurables : {<<>>}, storage_slots : {<<>>},
            logged_types : {<<>>, <<"u64">>}, messages_types : {<<>>}]
           : kind \in TyProgramKinds}

StorageSlotKeys == 1..2
StorageSlotValues == 1..2
StorageSlot == [key : StorageSlotKeys, value : StorageSlotValues]

\* TyStorageDecl::get_initialized_storage_slots: an error, or the slots of
\* the storage fields in the order the fields are evaluated.
InitializedStorageSlotsOutcomes ==
    {[kind |-> "Err"]} \cup [kind : {"Ok"}, slots : SeqsUpTo(StorageSlot, MaxStorageSlots)]

RECURSIVE InsertSorted(_, _)
\* x goes behind every slot that is not larger: the sort is stable
InsertSorted(s, x) ==
    IF s = <<>> THEN <<x>>
    ELSE IF x.key < Head(s).key THEN <<x>> \o s
    ELSE <<Head(s)>> \o InsertSorted(Tail(s), x)

RECURSIVE Sort(_)
\* Vec::sort with the Ord of StorageSlot, which compares the keys
Sort(s) ==
    IF s = <<>> THEN <<>>
    ELSE InsertSorted(Sort(SubSeq(s, 1, Len(s) - 1)), s[Len(s)])

\* lines 279-283, the storage declarations of the program
FindStorageDecl(declarations) == SelectSeq(declarations, IsStorageDecl)

\* lines 272-308 without the sort of line 291
InitializedStorageSlotsUnsorted(self, evaluated) ==
    IF self.kind = "Contract" /\ FindStorageDecl(self.declarations) # <<>>
    THEN IF evaluated.kind = "Err"
         THEN [kind |-> "Err"]
         ELSE [kind |-> "Ok", program |-> [self EXCEPT !.storage_slots = evaluated.slots]]
    ELSE [kind |-> "Ok", program |-> [self EXCEPT !.storage_slots = <<>>]]

\* lines 272-308: the value returned, given what
\* get_initialized_storage_slots yields when it is called
InitializedStorageSlots(self, evaluated) ==
    IF self.kind = "Contract" /\ FindStorageDecl(self.declarations) # <<>>
    THEN IF evaluated.kind = "Err"
         THEN [kind |-> "Err"]
         ELSE [kind |-> "Ok", program |-> [self EXCEPT !.storage_slots = Sort(evaluated.slots)]]
    ELSE [kind |-> "Ok", program |-> [self EXCEPT !.storage_slots = <<>>]]

InitStorage ==
    /\ ppc = "storage_slots"
    /\ \E self \in TyPrograms :
          program = [self |-> self, evaluated |-> [kind |-> "none"],
                     handler |-> <<>>, result |-> [kind |-> "none"]]
    /\ InstIdle
    /\ DeclIdle

\* fn get_typed_program_with_initialized_storage_slots (lines 263-309)
GetTypedProgramWithInitializedStorageSlots ==
    /\ ppc = "storage_slots"
    /\ LET self == program.self
       IN  IF self.kind = "Contract" /\ FindStorageDecl(self.declarations) # <<>>
           THEN \E evaluated \in InitializedStorageSlotsOutcomes :
                    program' = [program EXCEPT
                        !.evaluated = evaluated,
                        !.handler = IF evaluated.kind = "Err"
                                    THEN Append(@, "storage_error") ELSE @,
                        !.result = InitializedStorageSlots(self, evaluated)]
           ELSE program' = [program EXCEPT
                        !.result = InitializedStorageSlots(self, program.evaluated)]
    /\ ppc' = "done"
    /\ UNCHANGED <<instVars, declVars>>

NextStorage == GetTypedProgramWithInitializedStorageSlots

SpecStorage == InitStorage /\ [][NextStorage]_vars

-----------------------------------------------------------------------------
(* Properties of TyProgram::get_typed_program_with_initialized_storage_slots *)

HasStorageDecl(p) == \E i \in 1..Len(p.declarations) : p.declarations[i].decl = "StorageDecl"

SortedByKey(slots) == \A i, j \in 1..Len(slots) : i < j => slots[i].key <= slots[j].key

\* Both lists hold every slot the same number of times.
SameSlots(a, b) ==
    \A slot \in StorageSlot :
        Len(SelectSeq(a, LAMBDA x : x = slot)) = Len(SelectSeq(b, LAMBDA x : x = slot))

\* C12: get_typed_program_with_initialized_storage_slots returns an empty
\* slot list for a program that is no contract and for a contract without
\* a storage declaration; for a contract with a storage declaration it
\* returns the evaluated slots in sorted order; whenever it succeeds, every
\* other component of the program is the one passed in.
C12_StorageSlotsSortedOrEmpty ==
    (ppc = "done" /\ program.result.kind = "Ok") =>
        LET self == program.self
            out == program.result.program
        IN  /\ (self.kind # "Contract" \/ ~HasStorageDecl(self)) => out.storage_slots = <<>>
            /\ (self.kind = "Contract" /\ HasStorageDecl(self)) =>
                    /\ program.evaluated.kind = "Ok"
                    /\ SortedByKey(out.storage_slots)
                    /\ SameSlots(out.storage_slots, program.evaluated.slots)
            /\ out.kind = self.kind /\ out.root = self.root
            /\ out.declarations = self.declarations
            /\ out.configurables = self.configurables
            /\ out.logged_types = self.logged_types
            /\ out.messages_types = self.messages_types
            /\ program.handler = <<>>

C12_Witness ==
    /\ ppc = "done" /\ program.result.kind = "Ok"
    /\ program.self.kind = "Contract" /\ HasStorageDecl(program.self)
    /\ Len(program.evaluated.slots) = MaxStorageSlots
    /\ ~SortedByKey(program.evaluated.slots)
    /\ program.result.program.storage_slots # program.evaluated.slots
    /\ program.self.logged_types # <<>>

C12_WitnessNoStorage ==
    /\ ppc = "done" /\ program.result.kind = "Ok"
    /\ program.self.kind = "Contract" /\ ~HasStorageDecl(program.self)
    /\ program.self.declarations # <<>>

-----------------------------------------------------------------------------
(* Properties of TyProgram::type_check *)

\* C10: on an acyclic dependency graph compute_order returns every submodule
\* exactly once, each after all modules it depends on; on a graph with a
\* cycle it fails with a cycle diagnostic and returns no order, and
\* type_check then fails without type-checking any module.
C10_OrderRespectsDependenciesOrFails ==
    (ppc \notin {"analyze", "compute_order"} /\ program.handler # <<"analyze_error">>) =>
        IF HasCycle(program.graph)
        THEN /\ ppc = "done" /\ program.result = "Err"
             /\ program.handler = <<"cycle">>
             /\ program.module_eval_order = <<>>
             /\ program.checked = <<>> /\ ~program.root_checked
        ELSE /\ Len(program.module_eval_order) = MaxModules
             /\ \A m \in Modules :
                    Cardinality({i \in 1..Len(program.module_eval_order) :
                                    program.module_eval_order[i] = m}) = 1
             /\ \A a, b \in Modules :
                    <<a, b>> \in program.graph =>
                        \A i, j \in 1..Len(program.module_eval_order) :
                            (program.module_eval_order[i] = a
                                /\ program.module_eval_order[j] = b) => j < i
             /\ \A i \in 1..Len(program.checked) :
                    program.checked[i] = program.module_eval_order[i]
             /\ "cycle" \notin {program.handler[i] : i \in 1..Len(program.handler)}

C10_Witness ==
    /\ ppc = "done" /\ program.result = "Ok"
    /\ Cardinality(program.graph) >= 2
    /\ Len(program.checked) = MaxModules
    /\ program.checked # [i \in 1..MaxModules |-> i]

C10_WitnessCycle ==
    /\ ppc = "done" /\ program.result = "Err" /\ HasCycle(program.graph)

\* type_check returned Ok.
TypeCheckSucceeded == ppc = "done" /\ program.result = "Ok"

EntryDeclCount(nodes) ==
    Len(SelectSeq(nodes, LAMBDA nd : nd.node = "FunctionDeclaration" /\ nd.name = "__entry"))

\* C11: a successful type_check of a Contract program yields the ordinarily
\* checked node list followed by exactly one synthesized "__entry"
\* declaration; for Script, Predicate and Library programs the node list is
\* the ordinarily checked list with nothing appended.
C11_ContractGetsOneEntryOthersNone ==
    TypeCheckSucceeded =>
        IF program.kind = "Contract"
        THEN /\ Len(program.all_nodes) = Len(program.root_nodes) + 1
             /\ SubSeq(program.all_nodes, 1, Len(program.root_nodes)) = program.root_nodes
             /\ program.all_nodes[Len(program.all_nodes)].node = "FunctionDeclaration"
             /\ program.all_nodes[Len(program.all_nodes)].name = "__entry"
             /\ EntryDeclCount(program.all_nodes) = 1
        ELSE program.all_nodes = program.root_nodes

C11_Witness ==
    /\ TypeCheckSucceeded /\ program.kind = "Contract"
    /\ Len(program.root_nodes) = MaxEntryFns + 1
    /\ EntryDeclCount(program.all_nodes) = 1

C11_WitnessOtherKind ==
    /\ TypeCheckSucceeded /\ program.kind = "Library"
    /\ Len(program.root_nodes) = MaxEntryFns + 1

InHandler(err) == \E i \in 1..Len(program.handler) : program.handler[i] = err

\* The __entry function has been built: lines 141-233 ran.
DispatcherBuilt ==
    /\ program.kind = "Contract"
    /\ \/ ppc = "return"
       \/ ppc = "done" /\ (program.result = "Ok" \/ InHandler("entry_error"))

\* The functions of the checked root module, in the order of its nodes.
CheckedFunctions == SelectSeq(program.root_nodes, LAMBDA nd : nd.node = "FunctionDeclaration")

\* C15: the body of the synthesized dispatcher is one declaration binding
\* the decoded method selector to a local, followed by one conditional per
\* entry function of the checked program, each comparing the selector with
\* the literal name of its function: n entry functions give n + 1 nodes, in
\* entry-function order.
C15_DispatcherBodyOneBranchPerEntryFn ==
    DispatcherBuilt =>
        LET body == program.dispatcher.body
        IN  /\ Len(body) = Len(CheckedFunctions) + 1
            /\ body[1].node = "VariableDeclaration"
            /\ body[1].name = "method_name"
            /\ body[1].body = "decode_first_param"
            /\ \A i \in 1..Len(CheckedFunctions) :
                  /\ i + 1 <= Len(body)
                  /\ body[i + 1].node = "If"
                  /\ body[i + 1].condition = <<"eq", "method_name", CheckedFunctions[i].name>>

C15_Witness ==
    /\ DispatcherBuilt /\ TypeCheckSucceeded
    /\ Len(program.root_nodes) = 3 /\ program.root_nodes[2] = StructNode
    /\ Len(program.dispatcher.body) = 3
    /\ program.dispatcher.body[3].condition[3] = FnName(2)

\* An error of a phase before the dispatcher synthesis was emitted.
EarlierPhaseFailed ==
    InHandler("analyze_error") \/ InHandler("cycle") \/ InHandler("module_error")
        \/ InHandler("root_error")

DispatcherPhaseBegun == ppc = "dispatcher" \/ DispatcherBuilt

EarlierPhasesSucceeded ==
    /\ ~HasCycle(program.graph)
    /\ program.module_eval_order \in ModuleEvaluationOrders(program.graph)
    /\ program.checked = program.module_eval_order
    /\ program.root_checked
    /\ ~EarlierPhaseFailed

\* C16: the dispatcher synthesis starts only after module-order
\* computation, the type check of all modules and root validation have
\* succeeded; when one of them fails type_check returns the error and no
\* dispatcher is built or checked; and no module is type-checked once the
\* dispatcher phase has begun.
C16_DispatcherIsASeparateLastPhase ==
    /\ [](DispatcherPhaseBegun => EarlierPhasesSucceeded)
    /\ [](EarlierPhaseFailed =>
            /\ ppc = "done" /\ program.result = "Err"
            /\ ~DispatcherPhaseBegun
            /\ EntryDeclCount(program.all_nodes) = 0)
    /\ [][DispatcherPhaseBegun =>
            /\ program'.checked = program.checked
            /\ program'.root_checked = program.root_checked]_vars

C16_Witness ==
    /\ DispatcherBuilt /\ TypeCheckSucceeded
    /\ Len(program.checked) = MaxModules /\ program.root_checked
    /\ program.graph # {}

C16_WitnessRootFailed ==
    /\ ppc = "done" /\ InHandler("root_error") /\ program.kind = "Contract"
    /\ Len(program.checked) = MaxModules

-----------------------------------------------------------------------------
(* Properties of TyStructDecl *)

Looked == lookup.kind # "idle"

\* C8: get_field_index_and_type(name) returns (i, t) only when the field at
\* zero-based declaration position i has that name and type t, returns
\* nothing exactly when no declared field has that name, and with unique
\* field names the index of every field is its declaration position.
C8_LookupIndexIsDeclarationPosition ==
    Looked =>
        /\ lookup.kind = "Some" =>
                /\ lookup.idx + 1 \in 1..Len(declA.fields)
                /\ declA.fields[lookup.idx + 1].name = field_name
                /\ declA.fields[lookup.idx + 1].type_argument = lookup.type_id
        /\ lookup.kind = "None" <=>
                \A i \in 1..Len(declA.fields) : declA.fields[i].name # field_name
        /\ NoDuplicates([i \in 1..Len(declA.fields) |-> declA.fields[i].name]) =>
                \A i \in 1..Len(declA.fields) :
                    declA.fields[i].name = field_name =>
                        lookup.kind = "Some" /\ lookup.idx = i - 1

C8_Witness ==
    /\ Looked /\ lookup.kind = "Some" /\ lookup.idx = 1
    /\ Len(declA.fields) = 2
    /\ declA.fields[1].name # declA.fields[2].name
    /\ declA.fields[1].type_argument # declA.fields[2].type_argument

\* A declaration without what C9 says comparison ignores.
WithoutSpansAndAttributes(d) ==
    [d EXCEPT !.span = "", !.attributes = "",
              !.fields = [i \in 1..Len(d.fields) |->
                            [d.fields[i] EXCEPT !.span = "", !.attributes = ""]]]

\* C9: under a fixed Engines context, equality of struct declarations and of
\* struct fields is reflexive and symmetric, and declarations that differ
\* only in spans and attributes are equal.
C9_EqReflexiveSymmetricSpanBlind ==
    cmp.kind = "eq" =>
        /\ cmp.aa /\ cmp.bb
        /\ cmp.ab <=> cmp.ba
        /\ WithoutSpansAndAttributes(declA) = WithoutSpansAndAttributes(declB) => cmp.ab
        /\ \A i \in 1..Len(declA.fields), j \in 1..Len(declB.fields) :
              /\ FieldEq(declA.fields[i], declA.fields[i])
              /\ FieldEq(declA.fields[i], declB.fields[j])
                    <=> FieldEq(declB.fields[j], declA.fields[i])
              /\ [declA.fields[i] EXCEPT !.span = "", !.attributes = ""]
                    = [declB.fields[j] EXCEPT !.span = "", !.attributes = ""]
                    => FieldEq(declA.fields[i], declB.fields[j])

C9_Witness ==
    /\ cmp.kind = "eq" /\ cmp.ab /\ cmp.ba
    /\ Len(declA.fields) = 2
    /\ declA.span # declB.span
    /\ declA.fields[1].span # declB.fields[1].span
    /\ declA.attributes # declB.attributes
    /\ WithoutSpansAndAttributes(declA) = WithoutSpansAndAttributes(declB)

\* C19: under a fixed Engines context, two struct fields, and two struct
\* declarations, that compare equal with eq feed the same data to the
\* hasher; so do two fields of the same name and type that differ in
\* visibility.
C19_EqualImpliesSameHash ==
    cmp.kind = "hash" =>
        /\ cmp.ab => cmp.same_hash
        /\ \A i \in 1..Len(declA.fields), j \in 1..Len(declB.fields) :
              FieldEq(declA.fields[i], declB.fields[j])
                    => FieldHash(declA.fields[i]) = FieldHash(declB.fields[j])

-----------------------------------------------------------------------------
(* Properties of struct_instantiation *)

\* The call path resolved to the struct declaration.
Resolved == resolution = "struct"

Ran(step) == \E i \in 1..Len(steps) : steps[i] = step

\* The call site lies outside the module subtree that declares the struct.
OutsideDeclSubtree == ~IsPrefixOf(decl_engine.call_path.prefixes, cur_module)

DeclHasPrivateField ==
    \E i \in 1..Len(decl_engine.fields) : decl_engine.fields[i].visibility = "Private"

DeclaredNames == {decl_engine.fields[i].name : i \in 1..Len(decl_engine.fields)}
SuppliedNames == {fields[k].name : k \in 1..Len(fields)}

CannotBeInstantiatedCount == CountOf(handler, "StructCannotBeInstantiated")
MissingFieldsCount == CountOf(handler, "StructInstantiationMissingFields")

\* C1: the struct is treated as not instantiable iff the call site is outside
\* the declaring module subtree and the struct has a private field; inside
\* the subtree it is always instantiable, outside exactly when it has no
\* private field.
C1_NotInstantiableIffOutsideAndPrivate ==
    (Resolved /\ pc # "start") =>
        /\ locals.struct_can_be_instantiated
                <=> ~(OutsideDeclSubtree /\ DeclHasPrivateField)
        /\ ~OutsideDeclSubtree => locals.struct_can_be_instantiated
        /\ OutsideDeclSubtree => (locals.struct_can_be_instantiated <=> ~DeclHasPrivateField)
        /\ Ran("report_not_instantiable") =>
                (CannotBeInstantiatedCount = IF locals.struct_can_be_instantiated THEN 0 ELSE 1)

C1_Witness ==
    /\ Resolved /\ pc = "done" /\ result.kind = "Ok"
    /\ OutsideDeclSubtree /\ DeclHasPrivateField
    /\ \E i \in 1..Len(decl_engine.fields) : decl_engine.fields[i].visibility = "Public"
    /\ ~locals.struct_can_be_instantiated

\* C2: a struct with a private field, instantiated from outside its declaring
\* subtree with zero fields supplied, gets exactly one "cannot be
\* instantiated" diagnostic and no "missing fields" diagnostic.
C2_OutsideNoFieldsOneCannotInstantiate ==
    (Resolved /\ OutsideDeclSubtree /\ DeclHasPrivateField /\ Len(fields) = 0) =>
        /\ MissingFieldsCount = 0
        /\ CannotBeInstantiatedCount = IF Ran("report_not_instantiable") THEN 1 ELSE 0
        /\ pc = "done" => Ran("report_not_instantiable")

C2_Witness ==
    /\ Resolved /\ OutsideDeclSubtree /\ DeclHasPrivateField /\ Len(fields) = 0
    /\ pc = "done" /\ result.kind = "Ok"
    /\ CannotBeInstantiatedCount = 1 /\ MissingFieldsCount = 0

\* C3: a struct with private fields, instantiated from within its declaring
\* subtree with all fields omitted, gets a "missing fields" diagnostic and
\* never a "cannot be instantiated" diagnostic.
C3_InsideAllOmittedMissingFields ==
    (Resolved /\ ~OutsideDeclSubtree /\ DeclHasPrivateField
        /\ DeclaredNames \cap SuppliedNames = {}) =>
        /\ CannotBeInstantiatedCount = 0
        /\ Ran("type_check_field_arguments") => MissingFieldsCount = 1
        /\ pc = "done" => Ran("type_check_field_arguments")

C3_Witness ==
    /\ Resolved /\ ~OutsideDeclSubtree /\ DeclHasPrivateField
    /\ DeclaredNames \cap SuppliedNames = {}
    /\ pc = "done" /\ result.kind = "Ok"
    /\ MissingFieldsCount = 1 /\ CannotBeInstantiatedCount = 0

\* The "does not have field" diagnostics naming n.
DoesNotHaveFieldCount(n) ==
    Len(SelectSeq(handler, LAMBDA d : d.kind = "StructDoesNotHaveField" /\ d.field_name = n))

SuppliedCount(n) == Len(SelectSeq(fields, LAMBDA f : f.name = n))

LiteralType(value) == IF value = "lit_u64" THEN U64Id ELSE BoolId

\* Every declared field is supplied once, nothing else is supplied, and each
\* value type-checks to a type that unifies with the declared field type.
AllFieldsSuppliedAndUnify ==
    /\ Len(fields) = Len(decl_engine.fields)
    /\ SuppliedNames = DeclaredNames
    /\ \A k \in 1..Len(fields) :
          /\ fields[k].value # "bad"
          /\ \A i \in 1..Len(decl_engine.fields) :
                decl_engine.fields[i].name = fields[k].name =>
                    UnifyOk(LiteralType(fields[k].value), decl_engine.fields[i].type_argument)

\* The checks that do not depend on the fields passed: the struct type
\* unified with the type annotation and the type parameter bounds held.
AnnotationAndBoundsOk ==
    /\ result.kind = "Ok"
    /\ CountOf(handler, "StructTypeMismatch") = 0

\* C5 as stated: supplying every declared field, and no other, with a value
\* of a unifying type yields zero diagnostics and a node of the struct's
\* type, for every call site and every combination of field visibilities.
C5_AsStated ==
    (Resolved /\ pc = "done" /\ AllFieldsSuppliedAndUnify /\ AnnotationAndBoundsOk) =>
        /\ Len(handler) = 0
        /\ result.exp.return_type = StructTypeId

\* C5 amended: the same, for the call sites from which the struct is
\* instantiable: the call site is inside the declaring subtree, or the
\* struct has no private field.
C5_Amended ==
    (Resolved /\ pc = "done" /\ AllFieldsSuppliedAndUnify /\ AnnotationAndBoundsOk
        /\ (~OutsideDeclSubtree \/ ~DeclHasPrivateField)) =>
        /\ Len(handler) = 0
        /\ result.exp.return_type = StructTypeId
        /\ Len(result.exp.fields) = Len(decl_engine.fields)

C5_Witness ==
    /\ Resolved /\ pc = "done" /\ AllFieldsSuppliedAndUnify /\ AnnotationAndBoundsOk
    /\ ~OutsideDeclSubtree /\ DeclHasPrivateField
    /\ Len(fields) = MaxFields
    /\ Len(handler) = 0

\* C6: a typed instantiation node holds one entry per declared field, in
\* declaration order: the checked value of a supplied field, a placeholder
\* for a field not supplied; no declared field is absent.
C6_FieldListComplete ==
    (pc = "done" /\ result.kind = "Ok") =>
        /\ Len(result.exp.fields) = Len(decl_engine.fields)
        /\ \A i \in 1..Len(decl_engine.fields) :
              i <= Len(result.exp.fields) =>
                /\ result.exp.fields[i].name = decl_engine.fields[i].name
                /\ (decl_engine.fields[i].name \in SuppliedNames)
                        <=> result.exp.fields[i].value.expression # "Tuple"

MissingFieldsDiagnostics ==
    SelectSeq(handler, LAMBDA d : d.kind = "StructInstantiationMissingFields")

\* The names of the declared fields without a supplied value, in
\* declaration order.
DeclaredWithoutValue ==
    LET unsupplied == SelectSeq(decl_engine.fields, LAMBDA f : f.name \notin SuppliedNames)
    IN  [i \in 1..Len(unsupplied) |-> unsupplied[i].name]

\* C13: one struct instantiation emits the "missing fields" diagnostic
\* exactly once when the struct is instantiable and some declared field has
\* no supplied value, and never otherwise, so never together with "struct
\* cannot be instantiated"; the diagnostic lists the declared fields
\* without a supplied value in declaration order, and its total is the
\* number of declared fields.
C13_MissingFieldsOnceWhenInstantiable ==
    /\ Len(MissingFieldsDiagnostics) =
            IF /\ Resolved /\ Ran("type_check_field_arguments")
               /\ ~(OutsideDeclSubtree /\ DeclHasPrivateField)
               /\ DeclaredWithoutValue # <<>>
            THEN 1 ELSE 0
    /\ Len(MissingFieldsDiagnostics) > 0 => CannotBeInstantiatedCount = 0
    /\ \A i \in 1..Len(MissingFieldsDiagnostics) :
          /\ MissingFieldsDiagnostics[i].field_names = DeclaredWithoutValue
          /\ MissingFieldsDiagnostics[i].total_number_of_fields = Len(decl_engine.fields)

C13_Witness ==
    /\ pc = "done" /\ Resolved /\ OutsideDeclSubtree
    /\ Len(decl_engine.fields) = 2 /\ DeclaredWithoutValue = <<decl_engine.fields[2].name>>
    /\ \E k \in 1..Len(fields) : fields[k].name \in DeclaredNames /\ fields[k].value = "bad"
    /\ Len(MissingFieldsDiagnostics) = 1
    /\ MissingFieldsDiagnostics[1].total_number_of_fields = 2

FieldIsPrivateDiagnostics == SelectSeq(handler, LAMBDA d : d.kind = "StructFieldIsPrivate")

FieldIsPrivateCount(n) ==
    Len(SelectSeq(FieldIsPrivateDiagnostics, LAMBDA d : d.field_name = n))

DeclaredPrivate(n) ==
    \E i \in 1..Len(decl_engine.fields) :
        decl_engine.fields[i].name = n /\ decl_engine.fields[i].visibility = "Private"

C14_WitnessInside ==
    /\ Resolved /\ pc = "done" /\ ~OutsideDeclSubtree
    /\ \E k \in 1..Len(fields) : DeclaredPrivate(fields[k].name)

WithoutSpan(field) == [field EXCEPT !.span = ""]

\* The value the loop of type_check_field_arguments finds for field n.
FirstSupplied(n) == fields[FindByName(fields, n)]

\* C17: struct_instantiation never changes the struct declaration stored
\* in the declaration engine, whether it succeeds or fails and whether the
\* struct is generic or not; on its working copy of the fields it
\* overwrites nothing but the span of a field whose supplied value
\* type-checked.
C17_StoredDeclarationUnchanged ==
    /\ [][decl_engine' = decl_engine]_vars
    /\ [](Resolved =>
            /\ Len(struct_fields) = Len(decl_engine.fields)
            /\ \A i \in 1..Len(struct_fields) :
                  /\ WithoutSpan(struct_fields[i]) = WithoutSpan(decl_engine.fields[i])
                  /\ struct_fields[i].span # decl_engine.fields[i].span =>
                        /\ Ran("type_check_field_arguments")
                        /\ struct_fields[i].name \in SuppliedNames
                        /\ FirstSupplied(struct_fields[i].name).value # "bad"
                        /\ struct_fields[i].span = "value_span")

C17_Witness ==
    /\ Resolved /\ pc = "done" /\ result.kind = "Err"
    /\ Len(decl_engine.type_parameters) > 0
    /\ Len(struct_fields) = 2
    /\ struct_fields[1].span = decl_engine.fields[1].span
    /\ struct_fields[2].span # decl_engine.fields[2].span

\* The names bound in the caller's namespace before struct_instantiation.
CallerNamespace == {"S"}

\* C18: the struct's type parameters are inserted only into a cloned
\* namespace: when struct_instantiation has returned, with a node or with
\* an error of the insertion or of the bound check, the caller's namespace
\* holds no binding added by that step and is otherwise unchanged.
C18_CallerNamespaceUnchanged ==
    /\ [][namespace' = namespace]_vars
    /\ [](Ran("type_parameter_bounds") =>
            /\ namespace = CallerNamespace
            /\ \A i \in 1..Len(decl_engine.type_parameters) :
                    decl_engine.type_parameters[i] \notin namespace)

C18_Witness ==
    /\ pc = "done" /\ Ran("type_parameter_bounds")
    /\ Len(decl_engine.type_parameters) > 0
    /\ result.kind = "Err" /\ result.at = "check_type_parameter_bounds"
    /\ namespace = CallerNamespace

C18_WitnessOk ==
    /\ pc = "done" /\ Ran("type_parameter_bounds")
    /\ Len(decl_engine.type_parameters) > 0
    /\ result.kind = "Ok"

====
